---- MODULE Spec2Model ----
(***************************************************************************)
(* Model of the ESP32 theta-entrainment firmware (src/src/main.cpp):       *)
(* the tick interrupt, setup(), and loop() with its panic stop, frame-rate *)
(* gate, safety envelope (ramp-in, fade-out, timeout halt) and renderer.   *)
(* ClockSpec looks at the tick counter word by word (onTimer against       *)
(* getTimeSeconds); PhaseSpec applies getEnhancedPhase to single calls,    *)
(* MaskSpec does so for spiralMask, and BuildSpec computes single frames   *)
(* under other settings of the phase enhancement.                          *)
(*                                                                         *)
(* Number representation.  A float in the unit interval is a fixed-point   *)
(* integer in thousandths (ONE = 1.0f).  Times returned by getTimeSeconds  *)
(* are kept in microseconds, after the rounding that the (float) cast of   *)
(* the 64-bit counter performs (24 significant bits).  Angles are in       *)
(* thousandths of a turn, frequencies in millihertz.  sinf is a rational   *)
(* approximation with absolute error below 0.002.                          *)
(***************************************************************************)
EXTENDS Integers, Sequences, FiniteSets, TLC

(* ------------------------- program constants -------------------------- *)
NUM_LEDS == 20
GLOBAL_BRIGHTNESS == 70
FRAME_MS == 10
RAMP_IN_SECONDS == 180
MAX_SESSION_SECONDS == 1800
FADE_OUT_SECONDS == 15
MODE_DURATION == 30
REFLECTION_OFFSET == 2
\* 0.35f in thousandths
REFLECTION_DECAY == 350
\* frequencies in millihertz
LEFT_FREQ_HZ == 5800
RIGHT_FREQ_HZ == 6200
BREATH_FREQ_HZ == 120
MICRO_FREQ_HZ == 45000
MICRO_ENABLED == FALSE
\* the build with sinusoidal modulation switched off
USE_SINUSOIDAL_MODULATION_Off == FALSE
USE_SINUSOIDAL_MODULATION == TRUE
USE_PHASE_ENHANCEMENT == TRUE
\* 0.15f in thousandths
PHASE_SYNC_STRENGTH == 150
\* 2.5f
PULSE_SHARPNESS == 2500
\* microseconds added by one tick interrupt
TICK_MICROS == 100
\* the fade threshold 0.01f in thousandths
FADE_EPSILON == 10

\* 1.0f in the fixed-point representation of floats
ONE == 1000
\* microseconds per second (the factor 0.000001f of getTimeSeconds)
MICROS_PER_SECOND == 1000000

LOW == "LOW"
HIGH == "HIGH"

(* ------------------------------ bounds -------------------------------- *)
\* unsigned long millis() is modelled with this many bits
MillisBits == 4
MILLIS_MOD == 2 ^ MillisBits
\* the tick interrupt fires until this many seconds have been counted
MaxObservedSeconds == 1816
\* Instants (in seconds and in tenths of a second past them) at which the
\* tick counter is observed; the interrupt fires in bursts between them.
InstantsDeci ==
    { 10, 450, 900, 1350, 1790, 1800, 1810, 9000, 17990, 18000, 18005,
      18050, 18100, 18140, 18148, 18149, 18150, MaxObservedSeconds * 10 }
Instants == { d * (MICROS_PER_SECOND \div 10) : d \in InstantsDeci }
\* The instants of the specification that carries the fairness conditions.
CoarseInstants ==
    { d * MICROS_PER_SECOND : d \in {90, 900, 1805, MaxObservedSeconds} }
\* Ticks that may fire inside setup() between timerAlarmEnable and the read
\* of tStart.
SetupTicks == {0, 12}
\* Advances of millis() between two observations.
MsSteps == {4}
\* Values of millis() when setup() reads it.
MsAtSetup == {0, 12}
\* The word-level clock model: the low word of the 64-bit counter has this
\* many bits, real time runs to ClockMaxMicros in steps of ClockSteps.
LoBits == 8
LoMod == 2 ^ LoBits
ClockMaxMicros == 400
ClockSteps == {1, 50}
\* Arguments of the calls of spiralMask that are examined: times in
\* microseconds, speeds in thousandths of a turn per second (the three the
\* program passes, zero, a fast one and negative ones)
MaskTimes == { k * 137000 : k \in 0 .. 11 }
MaskSpeeds == {-3300, -366, 0, 366, 374, 420, 7250}

\* Arguments of the calls of getEnhancedPhase that are examined: times in
\* microseconds (two periods of the left frequency), sync strengths in
\* thousandths.
PhaseTimes == { k * 13000 : k \in 0 .. 29 }
SyncStrengths == {0, PHASE_SYNC_STRENGTH, 500, 1000, 2000}

\* Session times and build settings for which one frame is computed: the
\* times reach past the ramp, the settings are USE_PHASE_ENHANCEMENT and
\* PHASE_SYNC_STRENGTH
BuildTimes == { k * 7013000 : k \in 1 .. 30 }
Builds == { [enhancement |-> e, sync |-> v] : e \in BOOLEAN, v \in SyncStrengths }
\* Ticks fired between two frames of a sweep through the session.
SweepBursts == {0, 12500, 25000}
\* Milliseconds passed between two frames of a sweep.
SweepMs == FRAME_MS + 2

(* ---------------------------- safety utilities ------------------------ *)
safeClampInt(v) == IF v < 0 THEN 0 ELSE IF v > 255 THEN 255 ELSE v

clamp01(v) == IF v < 0 THEN 0 ELSE IF v > ONE THEN ONE ELSE v

\* a * b for two fixed-point values
Mul(a, b) == (a * b) \div ONE

\* float -> int conversion of a fixed-point product c * amp (c an integer)
Scale(c, amp) == (c * amp) \div ONE

\* the 8-bit addition without saturation
qadd8_Wrap(a, b) == (a + b) % 256

qadd8(a, b) == IF a + b > 255 THEN 255 ELSE a + b

(* ------------------------------ the clock ----------------------------- *)
\* The spacing of float32 values around the integer m (24-bit significand).
FloatQuantum(m) ==
    IF m < 2^24 THEN 1
    ELSE IF m < 2^25 THEN 2
    ELSE IF m < 2^26 THEN 4
    ELSE IF m < 2^27 THEN 8
    ELSE IF m < 2^28 THEN 16
    ELSE IF m < 2^29 THEN 32
    ELSE IF m < 2^30 THEN 64
    ELSE 128

\* (float)micros: round to nearest representable value, ties to even.
ToFloat(m) ==
    LET q == FloatQuantum(m)
        r == m % q
        base == m - r
    IN  IF 2 * r < q THEN base
        ELSE IF 2 * r > q THEN base + q
        ELSE IF (base \div q) % 2 = 0 THEN base ELSE base + q

\* getTimeSeconds(): the counter copied inside the critical section, as a
\* float number of seconds (kept in microseconds).
getTimeSeconds(micros) == ToFloat(micros)

(* ---------------------------- modulation ------------------------------ *)
\* fmodf(x, 1.0f): the remainder has the sign of x
Fmod1(x) == IF x >= 0 THEN x % ONE ELSE 0 - ((0 - x) % ONE)

\* fmodf(t * f, 1.0f) in thousandths of a turn; t in microseconds, f in mHz.
MilliTurns(t, f) ==
    LET s == t \div MICROS_PER_SECOND
        r == (t % MICROS_PER_SECOND) \div 1000
    IN  Fmod1(s * f + (r * f) \div 1000)

\* sinf(TWO_PI * p / 1000) in thousandths, p any integer number of
\* thousandths of a turn.
SinTurn(p) ==
    LET a == p % ONE
        h == IF a < 500 THEN a ELSE a - 500
        q == h * (500 - h)
        v == (16000 * q) \div (1250000 - 4 * q)
    IN  IF a < 500 THEN v ELSE 0 - v

phaseOf(t, f) == MilliTurns(t, f)

getEnhancedPhase(t, freq, syncStrength) ==
    LET basePhase == phaseOf(t, freq)
        correction == Mul(SinTurn(basePhase), syncStrength)
    IN  IF USE_PHASE_ENHANCEMENT /\ syncStrength > 0
        THEN Fmod1(basePhase + correction)
        ELSE basePhase

\* expf(-phase * sharpness) in thousandths: the cubic Taylor polynomial of
\* exp at -phase * sharpness / 8, raised to the eighth power
expPulse(phase, sharpness) ==
    LET y == 0 - ((phase * sharpness) \div (8 * ONE))
        y2 == (y * y) \div ONE
        y3 == (y2 * y) \div ONE
        e1 == ONE + y + y2 \div 2 + y3 \div 6
        e2 == (e1 * e1) \div ONE
        e4 == (e2 * e2) \div ONE
    IN  (e4 * e4) \div ONE

sinModSmooth(t, f) == (ONE + SinTurn(MilliTurns(t, f))) \div 2

(* --------------------------- safety envelope -------------------------- *)
\* t / RAMP_IN_SECONDS with the clamp left out
RampFrac_NoClamp(t) == t \div ((RAMP_IN_SECONDS * MICROS_PER_SECOND) \div ONE)

\* clamp01(t / RAMP_IN_SECONDS)
RampFrac(t) == clamp01(t \div ((RAMP_IN_SECONDS * MICROS_PER_SECOND) \div ONE))

\* rampMul * (3.0f - 2.0f * rampMul): one factor dropped
Smoothstep_DroppedFactor(x) == (x * (3 * ONE - 2 * x)) \div ONE

\* rampMul * rampMul * (3.0f - 2.0f * rampMul)
Smoothstep(x) == (x * x * (3 * ONE - 2 * x)) \div (ONE * ONE)

RampMul(t) == Smoothstep(RampFrac(t))

\* t > MAX_SESSION_SECONDS
Expired(t) == t > MAX_SESSION_SECONDS * MICROS_PER_SECOND

\* the fade divided by 150.0f instead of 15.0f
FadeFrac_SlowFade(t) ==
    clamp01(ONE - ((t - MAX_SESSION_SECONDS * MICROS_PER_SECOND)
                     \div ((10 * FADE_OUT_SECONDS * MICROS_PER_SECOND) \div ONE)))

\* clamp01(1.0f - (t - MAX_SESSION_SECONDS) / 15.0f)
FadeFrac(t) ==
    clamp01(ONE - ((t - MAX_SESSION_SECONDS * MICROS_PER_SECOND)
                     \div ((FADE_OUT_SECONDS * MICROS_PER_SECOND) \div ONE)))

\* fade < 0.0f, which the clamp never lets happen
TimedOut_Never(t) == Expired(t) /\ FadeFrac(t) < 0

\* fade <= 0.01f
TimedOut(t) == Expired(t) /\ FadeFrac(t) <= FADE_EPSILON

\* the brightness without the statement fade = fade * fade
FadeBrightness_Linear(t) == Scale(GLOBAL_BRIGHTNESS, FadeFrac(t))

\* the fade applied to the full 8-bit range instead of GLOBAL_BRIGHTNESS
FadeBrightness_FullScale(t) == Scale(255, Mul(FadeFrac(t), FadeFrac(t)))

\* (uint8_t)(GLOBAL_BRIGHTNESS * fade) after fade = fade * fade
FadeBrightness(t) == Scale(GLOBAL_BRIGHTNESS, Mul(FadeFrac(t), FadeFrac(t)))

(* ----------------------- mandala + geometry masks --------------------- *)
Abs(x) == IF x < 0 THEN 0 - x ELSE x

\* (float)i / (float)NUM_LEDS
LedPos(i) == (i * ONE) \div NUM_LEDS

\* the mask without its baseline of 0.2
spiralMask_NoBaseline(i, t, speed) ==
    LET d0 == Abs(LedPos(i) - MilliTurns(t, speed))
        d == IF d0 > 500 THEN ONE - d0 ELSE d0
        m == ONE - d * 2
    IN  clamp01(m)

spiralMask(i, t, speed) ==
    LET d0 == Abs(LedPos(i) - MilliTurns(t, speed))
        d == IF d0 > 500 THEN ONE - d0 ELSE d0
        m == ONE - d * 2
    IN  clamp01(m + 200)

radialMask(i, t, freq, petals) ==
    LET angle == LedPos(i) * petals
        carrier == (SinTurn(MilliTurns(t, freq) + angle) + ONE) \div 2
    IN  clamp01(carrier)

interferenceMask(i, t, fL, fR) ==
    LET A == SinTurn(MilliTurns(t, fL) + LedPos(i))
        B == SinTurn(MilliTurns(t, fR) + ONE - LedPos(i))
        mix == (A + B) \div 4 + 500
    IN  clamp01(mix)

(* ---------------------------- colour utilities ------------------------ *)
CRGB(r, g, b) == <<r, g, b>>

Black == [i \in 0 .. NUM_LEDS - 1 |-> CRGB(0, 0, 0)]

mixColor(a, b, w) ==
    CRGB(safeClampInt((a[1] * (ONE - w) + b[1] * w) \div ONE),
         safeClampInt((a[2] * (ONE - w) + b[2] * w) \div ONE),
         safeClampInt((a[3] * (ONE - w) + b[3] * w) \div ONE))

\* c scaled by amp, each channel through safeClampInt
Scaled(c, amp) ==
    CRGB(safeClampInt(Scale(c[1], amp)),
         safeClampInt(Scale(c[2], amp)),
         safeClampInt(Scale(c[3], amp)))

leftColor == CRGB(255, 120, 40)
rightColor == CRGB(40, 130, 255)
centerColor == CRGB(255, 200, 90)

(* -------------------------- physical LED order ------------------------ *)
\* the table with its last entry repeating physical LED 0
spiralOrderSeq_Dup == <<9, 10, 8, 11, 7, 12, 6, 13, 5, 14, 4, 15, 3, 16, 2, 17, 1, 18, 0, 0>>

spiralOrderSeq == <<9, 10, 8, 11, 7, 12, 6, 13, 5, 14, 4, 15, 3, 16, 2, 17, 1, 18, 0, 19>>
spiralOrder(i) == spiralOrderSeq[i + 1]

(* ------------------------------ one frame ----------------------------- *)
\* the quotient rounded to nearest instead of truncated
MandalaMode_Rounded(t) ==
    ((t + (MODE_DURATION * MICROS_PER_SECOND) \div 2)
        \div (MODE_DURATION * MICROS_PER_SECOND)) % 3

\* ((int)(t / MODE_DURATION)) % 3
MandalaMode(t) == (t \div (MODE_DURATION * MICROS_PER_SECOND)) % 3

Micro(t) ==
    IF MICRO_ENABLED THEN (SinTurn(MilliTurns(t, MICRO_FREQ_HZ)) + ONE) \div 2
    ELSE ONE

\* 0.85f + 0.15f * sinf(TWO_PI * BREATH_FREQ_HZ * t)
Breathe(t) == 850 + (150 * SinTurn(MilliTurns(t, BREATH_FREQ_HZ))) \div ONE

\* the product without the factor rampMul
FinalAmp_NoRamp(t, f) ==
    clamp01(Mul(Mul(sinModSmooth(t, f), Micro(t)), Breathe(t)))

\* ampL / ampR: the modulation selected at build time; phase is the value
\* of phL / phR
Amp(phase, t, f) ==
    IF USE_SINUSOIDAL_MODULATION THEN sinModSmooth(t, f)
    ELSE expPulse(phase, PULSE_SHARPNESS)

\* clamp01(amp * micro * rampMul * breathe)
FinalOf(amp, t) ==
    clamp01(Mul(Mul(Mul(amp, Micro(t)), RampMul(t)), Breathe(t)))

\* finalL / finalR of the frame at t for the channel of frequency f
FinalAmp(t, f) ==
    FinalOf(Amp(getEnhancedPhase(t, f, PHASE_SYNC_STRENGTH), t, f), t)

FinalL(t) == FinalAmp(t, LEFT_FREQ_HZ)
FinalR(t) == FinalAmp(t, RIGHT_FREQ_HZ)

\* 0.25f + f * 0.02f, and 0.3f + 0.02f * f, in millihertz
CoreSpeed(f) == 250 + (f * 20) \div ONE
BodySpeed(f) == 300 + (20 * f) \div ONE
MidFreq == (LEFT_FREQ_HZ + RIGHT_FREQ_HZ) \div 2

\* for (i = 0; i < 3; ++i) leds[spiralOrder[i]] = leftColor * finalL * mask
LeftCore(buf, t, finalL) ==
    LET c(i) == Scaled(leftColor, Mul(finalL, spiralMask(i, t, CoreSpeed(LEFT_FREQ_HZ))))
    IN  [buf EXCEPT ![spiralOrder(0)] = c(0), ![spiralOrder(1)] = c(1),
                    ![spiralOrder(2)] = c(2)]

\* for (i = NUM_LEDS - 3; i < NUM_LEDS; ++i) leds[spiralOrder[i]] = rightColor * finalR * mask
RightCore(buf, t, finalR) ==
    LET c(i) == Scaled(rightColor, Mul(finalR, spiralMask(i, t, CoreSpeed(RIGHT_FREQ_HZ))))
    IN  [buf EXCEPT ![spiralOrder(NUM_LEDS - 3)] = c(NUM_LEDS - 3),
                    ![spiralOrder(NUM_LEDS - 2)] = c(NUM_LEDS - 2),
                    ![spiralOrder(NUM_LEDS - 1)] = c(NUM_LEDS - 1)]

\* leds[c0] = centerColor * centerAmp; leds[c1] = leds[c0]
CenterAnchors(buf, finalL, finalR) ==
    LET centerAmp == clamp01((finalL + finalR) \div 2)
        b0 == [buf EXCEPT ![spiralOrder(0)] = Scaled(centerColor, centerAmp)]
    IN  [b0 EXCEPT ![spiralOrder(1)] = b0[spiralOrder(0)]]

BodyMask(pos, t) ==
    LET mode == MandalaMode(t)
    IN  clamp01(IF mode = 0 THEN radialMask(pos, t, MidFreq, 8)
                ELSE IF mode = 1 THEN spiralMask(pos, t, BodySpeed(MidFreq))
                ELSE interferenceMask(pos, t, LEFT_FREQ_HZ, RIGHT_FREQ_HZ))

\* mixColor(centerColor, mixColor(leftColor, rightColor, 0.5f), 0.6f)
blended == mixColor(centerColor, mixColor(leftColor, rightColor, 500), 600)

\* blended.{r,g,b} * mixedAmp, truncated to int
BodyRGB(pos, t, finalL, finalR) ==
    LET stereoMix == IF pos < NUM_LEDS \div 2 THEN 800 ELSE 200
        mixedAmp == clamp01(Mul(BodyMask(pos, t),
                                Mul(stereoMix, finalL) + Mul(ONE - stereoMix, finalR)))
    IN  CRGB(Scale(blended[1], mixedAmp), Scale(blended[2], mixedAmp),
             Scale(blended[3], mixedAmp))

\* the iteration with the primary colour added to what the buffer holds and
\* the echo taken from the buffer
BodyStep_Feedback(buf, pos, t, finalL, finalR) ==
    LET c == BodyRGB(pos, t, finalL, finalR)
        idx == spiralOrder(pos)
        b1 == [buf EXCEPT ![idx] = CRGB(qadd8(buf[idx][1], safeClampInt(c[1])),
                                        qadd8(buf[idx][2], safeClampInt(c[2])),
                                        qadd8(buf[idx][3], safeClampInt(c[3])))]
        src == b1[idx]
        echoPos == pos + REFLECTION_OFFSET
    IN  IF echoPos < NUM_LEDS
        THEN LET e == spiralOrder(echoPos)
             IN  [b1 EXCEPT ![e] = CRGB(qadd8(b1[e][1], Scale(src[1], REFLECTION_DECAY)),
                                        qadd8(b1[e][2], Scale(src[2], REFLECTION_DECAY)),
                                        qadd8(b1[e][3], Scale(src[3], REFLECTION_DECAY)))]
        ELSE b1

\* one iteration of the main-body loop: the primary colour is stored, then
\* its decayed copy is added at pos + REFLECTION_OFFSET
BodyStep(buf, pos, t, finalL, finalR) ==
    LET c == BodyRGB(pos, t, finalL, finalR)
        idx == spiralOrder(pos)
        b1 == [buf EXCEPT ![idx] = CRGB(safeClampInt(c[1]), safeClampInt(c[2]),
                                        safeClampInt(c[3]))]
        echoPos == pos + REFLECTION_OFFSET
    IN  IF echoPos < NUM_LEDS
        THEN LET e == spiralOrder(echoPos)
             IN  [b1 EXCEPT ![e] = CRGB(qadd8(b1[e][1], Scale(c[1], REFLECTION_DECAY)),
                                        qadd8(b1[e][2], Scale(c[2], REFLECTION_DECAY)),
                                        qadd8(b1[e][3], Scale(c[3], REFLECTION_DECAY)))]
        ELSE b1

RECURSIVE BodyLoop(_, _, _, _, _)
\* for (pos = 2; pos < NUM_LEDS - 2; ++pos)
BodyLoop(buf, pos, t, finalL, finalR) ==
    IF pos >= NUM_LEDS - 2 THEN buf
    ELSE BodyLoop(BodyStep(buf, pos, t, finalL, finalR), pos + 1, t, finalL, finalR)

\* for (i = 0; i < NUM_LEDS; ++i) leds[i] = CRGB::Black
ClearLeds(buf) == [i \in DOMAIN buf |-> CRGB(0, 0, 0)]

\* the rendering statements of loop() for the final amplitudes finalL and
\* finalR, run on the buffer buf the previous iteration left behind
RenderWith(buf, t, finalL, finalR) ==
    LET cores == RightCore(LeftCore(ClearLeds(buf), t, finalL), t, finalR)
    IN  BodyLoop(CenterAnchors(cores, finalL, finalR), 2, t, finalL, finalR)

\* the same with finalL and finalR as loop() computes them
RenderOn(buf, t) == RenderWith(buf, t, FinalL(t), FinalR(t))

\* the buffer loop() hands to FastLED.show() for session time t when it
\* starts from a black buffer
RenderFrame(t) == RenderOn(Black, t)

(* ------------------------------- state -------------------------------- *)
VARIABLES
    pc,           \* "boot", "loop" (loop() about to start), "run" (panic pin
                  \* sampled, rest of loop() pending), "panicSpin", "haltSpin"
    panicPin,     \* level on PANIC_PIN (LOW = button pressed)
    pinRead,      \* the last value digitalRead(PANIC_PIN) returned
    timerMicros,  \* the tick counter
    tStart,       \* session start, as getTimeSeconds() returned it
    ms,           \* millis()
    lastFrameMs,
    leds,         \* the LED buffer, by physical position
    brightness,   \* FastLED's global brightness
    sink,         \* what the last FastLED.show() transmitted
    shows,        \* parity of the number of FastLED.show() calls
    t,            \* loop()'s local t of the last frame evaluated
    rampMul,      \* loop()'s local rampMul of the last frame evaluated
    event,        \* what the program's last step did
    panicFrames,  \* frames rendered since the pin last went LOW (history)
    mandalaMode,  \* loop()'s local mandalaMode of the last frame rendered
    timerOk,      \* whether timerBegin/timerAlarmEnable started the timer
    realMicros,   \* real time in microseconds (word-level clock model)
    timerMux,     \* holder of the critical section timerMux
    reader,       \* a call of getTimeSeconds() in progress, word by word
    call          \* one call of a function examined alone: arguments and result

vars == <<pc, panicPin, pinRead, timerMicros, tStart, ms, lastFrameMs, leds,
          brightness, sink, shows, t, rampMul, event, panicFrames,
          mandalaMode, timerOk, realMicros, timerMux, reader, call>>

\* the variables of the word-level clock model and of the function call
clockVars == <<realMicros, timerMux, reader>>
idleVars == <<timerOk, clockVars, call>>

\* FastLED.show(): transmit buffer and brightness
Show(buf, br) == [leds |-> buf, brightness |-> br]

\* no call of getTimeSeconds() in progress, none completed
\* pc: position in the call; lo, hi: the words copied; micros, prev: the
\* values the last two calls returned; reads: calls returned (2 = two or
\* more); elapsed: real time has passed since the last return; apart:
\* real time had passed between the last two returns
ReaderIdle ==
    [pc |-> "idle", lo |-> 0, hi |-> 0, micros |-> 0, prev |-> 0, reads |-> 0,
     apart |-> FALSE, elapsed |-> FALSE]

\* no call of getEnhancedPhase made
CallIdle == [t |-> 0, f |-> LEFT_FREQ_HZ, s |-> 0, result |-> 0, done |-> FALSE]

\* the globals' initialisers, and the hardware as reset leaves it
InitProgram ==
    /\ pc = "boot"
    /\ panicPin \in {HIGH, LOW}
    /\ pinRead = HIGH
    /\ timerMicros = 0
    /\ tStart = 0
    /\ ms \in MsAtSetup
    /\ lastFrameMs = 0
    /\ leds = Black
    /\ brightness = 255          \* FastLED's brightness before setBrightness
    /\ sink = Show(Black, 0)
    /\ shows = 0
    /\ t = 0
    /\ rampMul = 0
    /\ event = "boot"
    /\ panicFrames = 0
    /\ mandalaMode = 0
    /\ timerOk \in BOOLEAN
    /\ realMicros = 0
    /\ timerMux = "free"
    /\ reader = ReaderIdle

Init == InitProgram /\ call = CallIdle

(* ---------------------------- environment ----------------------------- *)
\* onTimer(), fired until the counter reaches one of the instants S
TimerTo(S) ==
    /\ pc # "boot"
    /\ timerOk
    /\ \E target \in S :
          /\ target > timerMicros
          /\ (target - timerMicros) % TICK_MICROS = 0
          /\ timerMicros' = target
    /\ UNCHANGED <<pc, panicPin, pinRead, tStart, ms, lastFrameMs, leds,
                   brightness, sink, shows, t, rampMul, mandalaMode, event, panicFrames>>
    /\ UNCHANGED idleVars

onTimer == TimerTo(Instants)

\* nowMs - lastFrameMs in unsigned long arithmetic
Elapsed(now, last) == (now - last) % MILLIS_MOD

\* millis() advances; fewer than 2^MILLIS_BITS ms pass between two frames
millisTick ==
    /\ \E d \in MsSteps :
          /\ Elapsed(ms, lastFrameMs) + d < MILLIS_MOD
          /\ ms' = (ms + d) % MILLIS_MOD
    /\ UNCHANGED <<pc, panicPin, pinRead, timerMicros, tStart, lastFrameMs,
                   leds, brightness, sink, shows, t, rampMul, mandalaMode, event, panicFrames>>
    /\ UNCHANGED idleVars

PanicPress ==
    /\ panicPin = HIGH
    /\ panicPin' = LOW
    /\ panicFrames' = 0
    /\ UNCHANGED <<pc, pinRead, timerMicros, tStart, ms, lastFrameMs, leds,
                   brightness, sink, shows, t, rampMul, mandalaMode, event>>
    /\ UNCHANGED idleVars

PanicRelease ==
    /\ panicPin = LOW
    /\ panicPin' = HIGH
    /\ panicFrames' = 0
    /\ UNCHANGED <<pc, pinRead, timerMicros, tStart, ms, lastFrameMs, leds,
                   brightness, sink, shows, t, rampMul, mandalaMode, event>>
    /\ UNCHANGED idleVars

(* ------------------------------ setup() ------------------------------- *)
\* setup() without the call of FastLED.setBrightness: the library's 255 stays
setup_DefaultBrightness ==
    /\ pc = "boot"
    /\ \E k \in SetupTicks :
          /\ timerMicros' = k * TICK_MICROS
          /\ tStart' = getTimeSeconds(k * TICK_MICROS)
    /\ brightness' = brightness
    /\ leds' = Black
    /\ sink' = Show(Black, brightness)
    /\ shows' = 1 - shows
    /\ lastFrameMs' = ms
    /\ event' = "setup"
    /\ pc' = "loop"
    /\ UNCHANGED <<panicPin, pinRead, ms, t, rampMul, mandalaMode, panicFrames>>
    /\ UNCHANGED idleVars

setup ==
    /\ pc = "boot"
    /\ \E k \in SetupTicks :
          /\ timerMicros' = k * TICK_MICROS
          /\ tStart' = getTimeSeconds(k * TICK_MICROS)
    /\ brightness' = GLOBAL_BRIGHTNESS
    /\ leds' = Black
    /\ sink' = Show(Black, GLOBAL_BRIGHTNESS)
    /\ shows' = 1 - shows
    /\ lastFrameMs' = ms
    /\ event' = "setup"
    /\ pc' = "loop"
    /\ UNCHANGED <<panicPin, pinRead, ms, t, rampMul, mandalaMode, panicFrames>>
    /\ UNCHANGED idleVars

\* initHardwareTimer() hands the handle timerBegin returned to
\* timerAttachInterrupt unchecked.  With a failed timer the call may fault;
\* the chip then resets and setup() starts again.
setupFault ==
    /\ pc = "boot"
    /\ ~timerOk
    /\ event' = "fault"
    /\ UNCHANGED <<pc, panicPin, pinRead, timerMicros, tStart, ms, lastFrameMs,
                   leds, brightness, sink, shows, t, rampMul, mandalaMode,
                   panicFrames>>
    /\ UNCHANGED idleVars

(* ------------------------------- loop() ------------------------------- *)
\* loop() starts: digitalRead(PANIC_PIN)
LoopBegin ==
    /\ pc = "loop"
    /\ pinRead' = panicPin
    /\ event' = "read"
    /\ pc' = "run"
    /\ UNCHANGED <<panicPin, timerMicros, tStart, ms, lastFrameMs, leds,
                   brightness, sink, shows, t, rampMul, mandalaMode, panicFrames>>
    /\ UNCHANGED idleVars

\* the frame-rate test placed before the panic test
LoopBranch_GateFirst(pin, elapsed) ==
    IF elapsed < FRAME_MS THEN "skip"
    ELSE IF pin = LOW THEN "panic"
    ELSE "frame"

\* the frame-rate test left out
LoopBranch_NoGate(pin, elapsed) ==
    IF pin = LOW THEN "panic" ELSE "frame"

\* The order of loop()'s tests: the panic test, then the frame-rate test.
LoopBranch(pin, elapsed) ==
    IF pin = LOW THEN "panic"
    ELSE IF elapsed < FRAME_MS THEN "skip"
    ELSE "frame"

\* the panic stop without fill_solid
PanicStop_NoFill ==
    /\ sink' = Show(leds, brightness)
    /\ shows' = 1 - shows
    /\ event' = "panic"
    /\ pc' = "panicSpin"
    /\ UNCHANGED <<panicPin, pinRead, timerMicros, tStart, ms, lastFrameMs,
                   leds, brightness, t, rampMul, mandalaMode, panicFrames>>

\* the panic stop: black buffer transmitted, then the endless while loop
PanicStop ==
    /\ leds' = Black
    /\ sink' = Show(Black, brightness)
    /\ shows' = 1 - shows
    /\ event' = "panic"
    /\ pc' = "panicSpin"
    /\ UNCHANGED <<panicPin, pinRead, timerMicros, tStart, ms, lastFrameMs,
                   brightness, t, rampMul, mandalaMode, panicFrames>>

\* if (nowMs - lastFrameMs < FRAME_MS) return;
SkipFrame ==
    /\ event' = "skip"
    /\ pc' = "loop"
    /\ UNCHANGED <<panicPin, pinRead, timerMicros, tStart, ms, lastFrameMs,
                   leds, brightness, sink, shows, t, rampMul, mandalaMode, panicFrames>>

\* the fade applied to the brightness currently set, not to GLOBAL_BRIGHTNESS
NextBrightness_Compound(now, br) ==
    IF Expired(now) THEN Scale(br, Mul(FadeFrac(now), FadeFrac(now))) ELSE br

\* brightness after the session-expiration block
NextBrightness(now, br) == IF Expired(now) THEN FadeBrightness(now) ELSE br

\* the frame: time and safety limits, then either the timeout halt or the
\* rendered buffer
Frame ==
    LET now == getTimeSeconds(timerMicros) - tStart
    IN  /\ lastFrameMs' = ms
        /\ t' = now
        /\ rampMul' = RampMul(now)
        /\ IF TimedOut(now)
           THEN /\ leds' = Black
                /\ sink' = Show(Black, brightness)
                /\ event' = "halt"
                /\ pc' = "haltSpin"
                /\ UNCHANGED <<brightness, panicFrames, mandalaMode>>
           ELSE /\ brightness' = NextBrightness(now, brightness)
                /\ leds' = RenderOn(leds, now)
                /\ mandalaMode' = MandalaMode(now)
                /\ sink' = Show(leds', brightness')
                /\ event' = "frame"
                /\ pc' = "loop"
                /\ panicFrames' = IF panicPin = LOW THEN panicFrames + 1 ELSE 0
        /\ shows' = 1 - shows
        /\ UNCHANGED <<panicPin, pinRead, timerMicros, tStart, ms>>

LoopBody ==
    /\ pc = "run"
    /\ UNCHANGED idleVars
    /\ LET branch == LoopBranch(pinRead, Elapsed(ms, lastFrameMs))
       IN  \/ branch = "panic" /\ PanicStop
           \/ branch = "skip" /\ SkipFrame
           \/ branch = "frame" /\ Frame

\* the spin loop left once the released pin is read
PanicSpin_Resume ==
    /\ pc = "panicSpin"
    /\ pinRead' = panicPin
    /\ event' = "spin"
    /\ pc' = IF panicPin = HIGH THEN "loop" ELSE "panicSpin"
    /\ UNCHANGED <<panicPin, timerMicros, tStart, ms, lastFrameMs, leds,
                   brightness, sink, shows, t, rampMul, mandalaMode, panicFrames>>
    /\ UNCHANGED idleVars

\* while (true) { delay(1000); if (digitalRead(PANIC_PIN) == HIGH) println }
PanicSpin ==
    /\ pc = "panicSpin"
    /\ pinRead' = panicPin
    /\ event' = "spin"
    /\ pc' = "panicSpin"
    /\ UNCHANGED <<panicPin, timerMicros, tStart, ms, lastFrameMs, leds,
                   brightness, sink, shows, t, rampMul, mandalaMode, panicFrames>>
    /\ UNCHANGED idleVars

\* the timeout branch returning instead of spinning
HaltSpin_Return ==
    /\ pc = "haltSpin"
    /\ pc' = "loop"
    /\ UNCHANGED <<panicPin, pinRead, timerMicros, tStart, ms, lastFrameMs,
                   leds, brightness, sink, shows, t, rampMul, mandalaMode, event, panicFrames>>
    /\ UNCHANGED idleVars

\* while (true) delay(1000);
HaltSpin ==
    /\ pc = "haltSpin"
    /\ pc' = "haltSpin"
    /\ UNCHANGED <<panicPin, pinRead, timerMicros, tStart, ms, lastFrameMs,
                   leds, brightness, sink, shows, t, rampMul, mandalaMode, event, panicFrames>>
    /\ UNCHANGED idleVars

Next ==
    \/ onTimer
    \/ millisTick
    \/ PanicPress
    \/ PanicRelease
    \/ setup
    \/ setupFault
    \/ LoopBegin
    \/ LoopBody
    \/ PanicSpin
    \/ HaltSpin

Spec == Init /\ [][Next]_vars

(* --------------------- a sweep through one session --------------------- *)
\* The panic button is never pressed; between two iterations of loop() the
\* interrupt fires one burst and more than the frame interval passes.
SweepInit == Init /\ panicPin = HIGH /\ timerOk

\* time passes, then loop() starts and samples the panic pin
SweepBegin ==
    /\ pc = "loop"
    /\ \E n \in SweepBursts :
          /\ timerMicros + n * TICK_MICROS <= MaxObservedSeconds * MICROS_PER_SECOND
          /\ timerMicros' = timerMicros + n * TICK_MICROS
    /\ ms' = (ms + SweepMs) % MILLIS_MOD
    /\ pinRead' = panicPin
    /\ event' = "read"
    /\ pc' = "run"
    /\ UNCHANGED <<panicPin, tStart, lastFrameMs, leds, brightness, sink, shows,
                   t, rampMul, mandalaMode, panicFrames>>
    /\ UNCHANGED idleVars

SweepNext ==
    \/ setup
    \/ SweepBegin
    \/ LoopBody
    \/ HaltSpin

SweepSpec == SweepInit /\ [][SweepNext]_vars

(* ------------------- the tick counter, word by word ------------------- *)
\* The 64-bit counter is two machine words.  onTimer() adds TICK_MICROS
\* inside portENTER_CRITICAL_ISR; getTimeSeconds() copies the two words
\* inside portENTER_CRITICAL.  Real time is explicit: the alarm is due every
\* TICK_MICROS microseconds and is served before the next one is due.
progVars == <<pc, panicPin, pinRead, tStart, ms, lastFrameMs, leds, brightness,
              sink, shows, t, rampMul, event, panicFrames, mandalaMode,
              timerOk, call>>

ClockInit == Init /\ timerOk /\ panicPin = HIGH /\ ms = 0

\* real time passes
Elapse ==
    /\ \E d \in ClockSteps :
          /\ realMicros + d <= ClockMaxMicros
          /\ realMicros + d - timerMicros < 2 * TICK_MICROS
          /\ realMicros' = realMicros + d
    /\ reader' = [reader EXCEPT !.elapsed = TRUE]
    /\ UNCHANGED <<timerMicros, timerMux, progVars>>

\* the interrupt handler entered although the main code is between the two
\* word reads
IsrMayRun_NoCritical(mux) == TRUE

\* portENTER_CRITICAL in getTimeSeconds() keeps the interrupt out until
\* portEXIT_CRITICAL
IsrMayRun(mux) == mux = "free"

\* onTimer(), run when the alarm is due
onTimerAlarm ==
    /\ timerOk
    /\ realMicros - timerMicros >= TICK_MICROS
    /\ IsrMayRun(timerMux)
    /\ timerMicros' = timerMicros + TICK_MICROS
    /\ UNCHANGED <<realMicros, timerMux, reader, progVars>>

\* getTimeSeconds(): portENTER_CRITICAL(&timerMux)
ReadEnter ==
    /\ reader.pc = "idle"
    /\ timerMux = "free"
    /\ timerMux' = "main"
    /\ reader' = [reader EXCEPT !.pc = "entered"]
    /\ UNCHANGED <<timerMicros, realMicros, progVars>>

\* uint64_t micros = timerMicros: the low word
ReadLo ==
    /\ reader.pc = "entered"
    /\ reader' = [reader EXCEPT !.pc = "lo", !.lo = timerMicros % LoMod]
    /\ UNCHANGED <<timerMicros, realMicros, timerMux, progVars>>

\* uint64_t micros = timerMicros: the high word
ReadHi ==
    /\ reader.pc = "lo"
    /\ reader' = [reader EXCEPT !.pc = "hi",
                                !.hi = timerMicros \div LoMod]
    /\ UNCHANGED <<timerMicros, realMicros, timerMux, progVars>>

\* portEXIT_CRITICAL(&timerMux); return
ReadExit ==
    /\ reader.pc = "hi"
    /\ timerMux' = "free"
    /\ reader' = [pc |-> "idle", lo |-> reader.lo, hi |-> reader.hi,
                  micros |-> reader.hi * LoMod + reader.lo,
                  prev |-> reader.micros,
                  reads |-> IF reader.reads < 2 THEN reader.reads + 1 ELSE 2,
                  apart |-> reader.elapsed,
                  elapsed |-> FALSE]
    /\ UNCHANGED <<timerMicros, realMicros, progVars>>

ClockNext ==
    \/ Elapse
    \/ onTimerAlarm
    \/ ReadEnter
    \/ ReadLo
    \/ ReadHi
    \/ ReadExit

ClockSpec == ClockInit /\ [][ClockNext]_vars

(* ----------------- one frame under other build settings --------------- *)
\* getEnhancedPhase in a build with USE_PHASE_ENHANCEMENT = enhancement
BuildPhase(enhancement, x, f, syncStrength) ==
    IF enhancement THEN getEnhancedPhase(x, f, syncStrength) ELSE phaseOf(x, f)

FrameInputs ==
    { [t |-> x, build |-> b, phL |-> 0, phR |-> 0, leds |-> Black, done |-> FALSE] :
        x \in BuildTimes, b \in Builds }

BuildInit ==
    /\ InitProgram /\ timerOk /\ panicPin = HIGH /\ ms = 0
    /\ call \in FrameInputs

\* the frame computation of loop() at session time call.t in the build
\* call.build: phL, phR, ampL, ampR, finalL, finalR, then the rendering
FrameInBuild ==
    /\ ~call.done
    /\ LET phL == BuildPhase(call.build.enhancement, call.t, LEFT_FREQ_HZ,
                              call.build.sync)
           phR == BuildPhase(call.build.enhancement, call.t, RIGHT_FREQ_HZ,
                              call.build.sync)
           finalL == FinalOf(Amp(phL, call.t, LEFT_FREQ_HZ), call.t)
           finalR == FinalOf(Amp(phR, call.t, RIGHT_FREQ_HZ), call.t)
       IN  call' = [call EXCEPT !.phL = phL, !.phR = phR,
                                !.leds = RenderWith(Black, call.t, finalL, finalR),
                                !.done = TRUE]
    /\ UNCHANGED <<pc, panicPin, pinRead, timerMicros, tStart, ms, lastFrameMs,
                   leds, brightness, sink, shows, t, rampMul, event,
                   panicFrames, mandalaMode, timerOk, clockVars>>

BuildNext == FrameInBuild

BuildSpec == BuildInit /\ [][BuildNext]_vars

(* --------------------------- spiralMask alone ------------------------- *)
MaskInputs ==
    { [i |-> i, t |-> x, speed |-> v, result |-> 0, done |-> FALSE] :
        i \in 0 .. NUM_LEDS - 1, x \in MaskTimes, v \in MaskSpeeds }

MaskInit ==
    /\ InitProgram /\ timerOk /\ panicPin = HIGH /\ ms = 0
    /\ call \in MaskInputs

\* one call of spiralMask(i, t, speed)
CallSpiralMask ==
    /\ ~call.done
    /\ call' = [call EXCEPT !.result = spiralMask(call.i, call.t, call.speed),
                            !.done = TRUE]
    /\ UNCHANGED <<pc, panicPin, pinRead, timerMicros, tStart, ms, lastFrameMs,
                   leds, brightness, sink, shows, t, rampMul, event,
                   panicFrames, mandalaMode, timerOk, clockVars>>

MaskNext == CallSpiralMask

MaskSpec == MaskInit /\ [][MaskNext]_vars

(* ------------------------ getEnhancedPhase alone ---------------------- *)
CallInputs ==
    { [t |-> x, f |-> f, s |-> s, result |-> 0, done |-> FALSE] :
        x \in PhaseTimes, f \in {LEFT_FREQ_HZ, RIGHT_FREQ_HZ}, s \in SyncStrengths }

PhaseInit ==
    /\ InitProgram /\ timerOk /\ panicPin = HIGH /\ ms = 0
    /\ call \in CallInputs

\* one call of getEnhancedPhase(t, freq, syncStrength)
CallEnhancedPhase ==
    /\ ~call.done
    /\ call' = [call EXCEPT !.result = getEnhancedPhase(call.t, call.f, call.s),
                            !.done = TRUE]
    /\ UNCHANGED <<pc, panicPin, pinRead, timerMicros, tStart, ms, lastFrameMs,
                   leds, brightness, sink, shows, t, rampMul, event,
                   panicFrames, mandalaMode, timerOk, clockVars>>

PhaseNext == CallEnhancedPhase

PhaseSpec == PhaseInit /\ [][PhaseNext]_vars

(* ------------------------------ fairness ------------------------------ *)
\* The same program with the counter observed at fewer instants.
onTimerCoarse == TimerTo(CoarseInstants)

FairNext ==
    \/ onTimerCoarse
    \/ millisTick
    \/ PanicPress
    \/ PanicRelease
    \/ setup
    \/ setupFault
    \/ LoopBegin
    \/ LoopBody
    \/ PanicSpin
    \/ HaltSpin

\* The Arduino core calls loop() forever, the timer alarm keeps firing and
\* millis() keeps advancing.  LoopBody is enabled exactly when pc = "run" and
\* always leaves it, so weak fairness of LoopBody is the recurrence of
\* pc # "run"; it is stated in that form, which needs no evaluation of
\* ENABLED over the renderer.
FairSpec ==
    /\ Init
    /\ [][FairNext]_vars
    /\ WF_vars(setup)
    /\ WF_vars(LoopBegin)
    /\ []<>(pc # "run")
    /\ WF_vars(PanicSpin)
    /\ WF_vars(onTimerCoarse)
    /\ WF_vars(millisTick)

(* ------------------------------ properties ---------------------------- *)
RampEnd == RAMP_IN_SECONDS * MICROS_PER_SECOND
SessionEnd == MAX_SESSION_SECONDS * MICROS_PER_SECOND
HardLimit == (MAX_SESSION_SECONDS + FADE_OUT_SECONDS) * MICROS_PER_SECOND

\* session-elapsed time a frame evaluated now would compute
SessionElapsed == getTimeSeconds(timerMicros) - tStart

\* C1: panic stop.  While the pin stays LOW at most one frame (the one whose
\* iteration had sampled the pin before it went LOW) is rendered; an
\* iteration that sampled LOW never comes back to the top of loop(), and the
\* panic stop leaves the buffer and the transmitted frame all black.
C1_PanicStopWithinOneFrame ==
    /\ panicFrames <= 1
    /\ (pc = "loop" => pinRead = HIGH)
    /\ (event = "panic" => pc = "panicSpin" /\ leds = Black /\ sink.leds = Black)

\* a panic stop during FadingOut, after one frame started before the press
C1_Witness ==
    /\ event = "panic"
    /\ panicFrames = 1
    /\ Expired(t) /\ ~TimedOut(t)
    /\ leds = Black

\* C2: the panic pin is tested first.  An iteration that sampled the pin LOW
\* ends in the panic stop with a black buffer transmitted, and computes no
\* time, no envelope and no frame-rate bookkeeping, whatever millis() says.
C2_PanicTestedFirst ==
    [][(pc = "run" /\ pinRead = LOW /\ pc' # "run")
         => (/\ event' = "panic"
             /\ leds' = Black
             /\ sink'.leds = Black
             /\ shows' # shows
             /\ UNCHANGED <<t, rampMul, mandalaMode, lastFrameMs, brightness>>)]_vars

\* a panic stop taken although fewer than FRAME_MS ms had passed
C2_Witness ==
    /\ event = "panic"
    /\ pinRead = LOW
    /\ Elapsed(ms, lastFrameMs) < FRAME_MS
    /\ sink.leds = Black

\* C3: PanicHalted is reversible: if the pin is eventually released for good,
\* the program does not stay in the panic loop.
C3_PanicHaltReversible ==
    (<>[](panicPin = HIGH)) => <>[](pc # "panicSpin")

C5_HaltedAbsorbing ==
    /\ [][(pc # "haltSpin" /\ pc' = "haltSpin")
            => (/\ Expired(t') /\ FadeFrac(t') <= FADE_EPSILON
                /\ leds' = Black /\ sink'.leds = Black /\ shows' # shows)]_vars
    /\ [][pc = "haltSpin"
            => (pc' = "haltSpin" /\ UNCHANGED <<leds, sink, shows, brightness>>)]_vars
    /\ []((Expired(t) /\ FadeFrac(t) <= FADE_EPSILON) => pc = "haltSpin")
    /\ [](pc = "haltSpin" => leds = Black /\ sink.leds = Black)

\* halted, and both clocks have moved on so that a frame would be due
C5_Witness ==
    /\ pc = "haltSpin"
    /\ SessionElapsed > t
    /\ Elapsed(ms, lastFrameMs) >= FRAME_MS

\* C6: hard duration limit.  A buffer with a lit LED is only ever held or
\* transmitted for a frame time below 1815 s, and a frame evaluated with
\* fade <= 0.01 halts with a black buffer instead of rendering.
C6_HardDurationLimit ==
    /\ ((leds # Black \/ sink.leds # Black) => t < HardLimit)
    /\ ((Expired(t) /\ FadeFrac(t) <= FADE_EPSILON)
          => (event = "halt" /\ leds = Black /\ sink.leds = Black))

\* the frame evaluated at t = 1816 s halted
C6_Witness ==
    /\ event = "halt"
    /\ t = 1816 * MICROS_PER_SECOND
    /\ sink.leds = Black

\* RampingIn = 0, Steady = 1, FadingOut = 2, Halted = 3
PhaseRank(x) ==
    IF x < RampEnd THEN 0
    ELSE IF x <= SessionEnd THEN 1
    ELSE IF FadeFrac(x) > FADE_EPSILON THEN 2
    ELSE 3

\* C7: session termination.  If the panic pin is never asserted (and the
\* timer runs, so that ticks and loop() keep coming) the program reaches the timeout halt, and the
\* phase of successive frames never goes back.
C7_SessionTerminates ==
    /\ ([](panicPin = HIGH /\ timerOk)) => <>(pc = "haltSpin")
    /\ [][PhaseRank(t') >= PhaseRank(t)]_vars

\* the timeout halt reached without any panic stop
C7_Witness ==
    /\ pc = "haltSpin"
    /\ event = "halt"
    /\ panicPin = HIGH
    /\ PhaseRank(t) = 3

\* C8: for every evaluated frame the ratio fed to the smoothstep, the ramp
\* multiplier, the fade fraction and its square all lie in [0, 1].
C8_MultiplierInUnitInterval ==
    /\ RampFrac(t) \in 0 .. ONE
    /\ rampMul \in 0 .. ONE
    /\ FadeFrac(t) \in 0 .. ONE
    /\ Mul(FadeFrac(t), FadeFrac(t)) \in 0 .. ONE

\* a frame at more than twice the ramp duration (ratio above 2)
C8_Witness ==
    /\ event = "frame"
    /\ t > 2 * RampEnd
    /\ rampMul = ONE

\* C9: during RampingIn the multiplier is x*x*(3-2x) for x = t/180 (0 at
\* t = 0, 0.5 at t = 90 s) and never decreases from one frame to the next.
C9_RampSmoothstepMonotone ==
    /\ []((event = "frame" /\ t < RampEnd)
            => LET x == t \div (RampEnd \div ONE)
               IN  rampMul = (x * x * (3 * ONE - 2 * x)) \div (ONE * ONE))
    /\ []((event = "frame" /\ t = 0) => rampMul = 0)
    /\ []((event = "frame" /\ t = 90 * MICROS_PER_SECOND) => 2 * rampMul = ONE)
    /\ [][t' < RampEnd => rampMul' >= rampMul]_vars

\* the frame at t = 90 s, after a frame earlier in the ramp
C9_Witness ==
    /\ event = "frame"
    /\ t = 90 * MICROS_PER_SECOND
    /\ 2 * rampMul = ONE

\* C10: in Steady the multiplier is exactly 1 and the brightness given to
\* the sink is exactly 70.
C10_SteadyFullAmplitude ==
    (event = "frame" /\ t >= RampEnd /\ t <= SessionEnd)
       => (rampMul = ONE /\ brightness = 70 /\ sink.brightness = 70)

\* the frame at exactly t = 1800 s, the last instant of Steady
C10_Witness ==
    /\ event = "frame"
    /\ t = SessionEnd
    /\ sink.brightness = 70

\* C11: during FadingOut the brightness given to the sink is the base
\* brightness times the square of clamp01(1 - (t - 1800)/15), truncated to
\* an integer (31 = floor(70 * 4/9) at t = 1805 s, to the nearest float),
\* and it never increases from one step to the next.
C11_FadeOutSquared ==
    /\ []((event = "frame" /\ t > SessionEnd)
            => LET raw == ONE - (t - SessionEnd) \div ((HardLimit - SessionEnd) \div ONE)
                   f == IF raw < 0 THEN 0 ELSE IF raw > ONE THEN ONE ELSE raw
               IN  /\ brightness = (GLOBAL_BRIGHTNESS * ((f * f) \div ONE)) \div ONE
                   /\ sink.brightness = brightness)
    /\ []((event = "frame" /\ Abs(t - 1805 * MICROS_PER_SECOND) <= FloatQuantum(t))
            => (9 * brightness <= 4 * GLOBAL_BRIGHTNESS
                /\ 9 * (brightness + 1) > 4 * GLOBAL_BRIGHTNESS))
    /\ [][t' > SessionEnd => brightness' <= brightness]_vars

\* the frame at t = 1805 s, transmitted with brightness 31
C11_Witness ==
    /\ event = "frame"
    /\ Abs(t - 1805 * MICROS_PER_SECOND) <= FloatQuantum(t)
    /\ sink.brightness = 31

\* C12: brightness ceiling.  Every transmission carries a brightness in
\* 0 .. GLOBAL_BRIGHTNESS, and from setup() on FastLED's brightness is in
\* that range.
C12_BrightnessCeiling ==
    /\ sink.brightness \in 0 .. GLOBAL_BRIGHTNESS
    /\ (pc # "boot" => brightness \in 0 .. GLOBAL_BRIGHTNESS)

\* a frame of the fade-out transmitted with a reduced, non-zero brightness
C12_Witness ==
    /\ event = "frame"
    /\ t > SessionEnd
    /\ sink.brightness > 0
    /\ sink.brightness < GLOBAL_BRIGHTNESS

\* C13: the counter is never observed torn.  Every value getTimeSeconds
\* has copied is a multiple of TICK_MICROS the counter has held, and of two
\* successive calls the later never returns less.
C13_NoTornRead ==
    (reader.reads >= 1)
       => (/\ reader.micros % TICK_MICROS = 0
           /\ reader.micros <= timerMicros
           /\ (reader.reads >= 2 => reader.micros >= reader.prev))

\* two calls between which the carry into the high word happened
C13_Witness ==
    /\ reader.reads >= 2
    /\ reader.pc = "idle"
    /\ reader.micros \div LoMod > reader.prev \div LoMod

\* C14: clock resolution.  Two calls of getTimeSeconds between which real
\* time (at least one microsecond) has passed return strictly increasing
\* values.
C14_MicrosecondResolution ==
    (reader.reads >= 2 /\ reader.apart) => reader.micros > reader.prev

\* C15: fatal startup failure.  When the timer fails to start, loop() is
\* never entered.
C15_FatalStartupFailure ==
    ~timerOk => pc = "boot"

\* C16: stateless frames.  Whatever the buffer and the earlier frames were,
\* the buffer and brightness a frame submits are those of its session time
\* t alone: the frame rendered on a black buffer, with GLOBAL_BRIGHTNESS up
\* to the session limit and the faded brightness after it.
C16_StatelessFrames ==
    [][(pc = "run" /\ pc' = "loop" /\ event' = "frame")
         => (/\ leds' = RenderFrame(t')
             /\ brightness' = (IF t' > SessionEnd THEN FadeBrightness(t')
                                ELSE GLOBAL_BRIGHTNESS)
             /\ sink' = Show(leds', brightness'))]_vars

\* a lit frame of the fade-out, rendered over the lit buffer of an earlier
\* frame and after the brightness had been lowered
C16_Witness ==
    /\ event = "frame"
    /\ t > SessionEnd + 10 * MICROS_PER_SECOND
    /\ leds # Black
    /\ sink.brightness < GLOBAL_BRIGHTNESS \div 4

\* C17: mode selection.  A rendered frame has mandalaMode = floor(t / 30)
\* mod 3, in {0, 1, 2}: 0 on [0,30), 1 on [30,60), 2 on [60,90), 0 again
\* on [90,120).
C17_ModeSelection ==
    (event = "frame")
       => LET sec == MICROS_PER_SECOND
          IN  /\ mandalaMode \in {0, 1, 2}
              /\ mandalaMode = (t \div (30 * sec)) % 3
              /\ (t < 30 * sec => mandalaMode = 0)
              /\ (t >= 30 * sec /\ t < 60 * sec => mandalaMode = 1)
              /\ (t >= 60 * sec /\ t < 90 * sec => mandalaMode = 2)
              /\ (t >= 90 * sec /\ t < 120 * sec => mandalaMode = 0)

\* a frame in [90,120), where the cycle has come round to mode 0
C17_Witness ==
    /\ event = "frame"
    /\ t >= 90 * MICROS_PER_SECOND
    /\ t < 120 * MICROS_PER_SECOND
    /\ mandalaMode = 0

\* C18: minimum inter-frame interval.  A frame is evaluated only when at
\* least FRAME_MS ms of millis() lie between it and the previous one, the
\* difference taken modulo the counter's range; an iteration arriving
\* earlier changes neither buffer, transmission nor lastFrameMs.
C18_MinFrameInterval ==
    [][(pc = "run" /\ pinRead = HIGH /\ pc' # "run")
         => IF (ms - lastFrameMs) % MILLIS_MOD >= FRAME_MS
            THEN event' \in {"frame", "halt"} /\ lastFrameMs' = ms
            ELSE event' = "skip"
                 /\ UNCHANGED <<leds, brightness, sink, shows, lastFrameMs, t>>]_vars

\* a frame rendered after millis() wrapped around since the previous frame
\* (lastFrameMs is below FRAME_MS only when the counter has wrapped or just
\* started)
C18_Witness ==
    /\ event = "frame"
    /\ lastFrameMs = ms
    /\ lastFrameMs < FRAME_MS
    /\ lastFrameMs > 0
    /\ t > 0

\* The logical positions whose echo is not overwritten later in the frame,
\* with the value the right core stored there and the echo added to it.
EchoTargets == (NUM_LEDS - REFLECTION_OFFSET) .. (NUM_LEDS - 1)
CoreValue(x, e, c) == RightCore(Black, x, FinalR(x))[spiralOrder(e)][c]
EchoValue(x, e, c) ==
    Scale(BodyRGB(e - REFLECTION_OFFSET, x, FinalL(x), FinalR(x))[c], REFLECTION_DECAY)

\* C19: saturating colour arithmetic.  Every channel of the buffer and of
\* the transmitted frame is in 0 .. 255; where an echo is added to a stored
\* colour the result is never below the stored value and is 255 whenever
\* the sum exceeds 255.
C19_SaturatingColour ==
    /\ \A i \in 0 .. NUM_LEDS - 1 : \A c \in 1 .. 3 :
          leds[i][c] \in 0 .. 255 /\ sink.leds[i][c] \in 0 .. 255
    /\ (event = "frame")
          => \A e \in EchoTargets : \A c \in 1 .. 3 :
                /\ leds[spiralOrder(e)][c] >= CoreValue(t, e, c)
                /\ (CoreValue(t, e, c) + EchoValue(t, e, c) > 255
                      => leds[spiralOrder(e)][c] = 255)

\* a frame in which the echo would carry a channel beyond 255
C19_Witness ==
    /\ event = "frame"
    /\ \E e \in EchoTargets : \E c \in 1 .. 3 :
          /\ CoreValue(t, e, c) < 255
          /\ CoreValue(t, e, c) + EchoValue(t, e, c) > 255
          /\ leds[spiralOrder(e)][c] = 255

\* C20: getEnhancedPhase returns a value in [0, 1) for every phase and
\* every sync strength, and with sync strength 0 exactly phaseOf(t, f).
C20_EnhancedPhaseInUnit ==
    call.done
       => (/\ call.result >= 0
           /\ call.result < ONE
           /\ (call.s = 0 => call.result = MilliTurns(call.t, call.f)))

\* the colour the core loops store at logical position i
LeftCoreColour(x, i) ==
    Scaled(leftColor, Mul(FinalL(x), spiralMask(i, x, CoreSpeed(LEFT_FREQ_HZ))))
RightCoreColour(x, i) ==
    Scaled(rightColor, Mul(FinalR(x), spiralMask(i, x, CoreSpeed(RIGHT_FREQ_HZ))))

\* the primary colour of logical position q: the main-body colour on
\* 2 .. NUM_LEDS - 3, the right-core colour beyond
PrimaryColour(x, q) ==
    IF q < NUM_LEDS - 2
    THEN LET c == BodyRGB(q, x, FinalL(x), FinalR(x))
         IN  CRGB(safeClampInt(c[1]), safeClampInt(c[2]), safeClampInt(c[3]))
    ELSE RightCoreColour(x, q)

\* C21: the end LEDs are exclusive to their channel.  In every submitted
\* frame logical positions 0..2 hold the left colour scaled by finalL and
\* the spiral mask, and positions 17..19 the right colour scaled by finalR
\* and the spiral mask.
C21_EndLedsExclusive ==
    (event = "frame")
       => (/\ \A i \in 0 .. 2 : leds[spiralOrder(i)] = LeftCoreColour(t, i)
           /\ \A i \in NUM_LEDS - 3 .. NUM_LEDS - 1 :
                 leds[spiralOrder(i)] = RightCoreColour(t, i))

\* C22: the reflection is visible.  In every submitted frame, for each
\* main-body position p with p + REFLECTION_OFFSET < NUM_LEDS, the colour at
\* p + REFLECTION_OFFSET is its primary colour plus, saturating, the decayed
\* copy of the colour computed for p.
C22_ReflectionVisible ==
    (event = "frame")
       => \A p \in 2 .. NUM_LEDS - 3 : \A c \in 1 .. 3 :
             LET q == p + REFLECTION_OFFSET
             IN  q < NUM_LEDS
                   => leds[spiralOrder(q)][c]
                        = qadd8(PrimaryColour(t, q)[c], EchoValue(t, q, c))

\* C23: no reflection feedback.  Where an echo reaches the submitted frame
\* (the positions after the main body), it is the decayed primary colour of
\* the emitting position alone, added to the colour stored there: the echo
\* the emitting position had itself received is not part of it.
C23_NoReflectionFeedback ==
    (event = "frame")
       => LET fl == FinalL(t)
              fr == FinalR(t)
              core == RightCore(Black, t, fr)
          IN  \A e \in EchoTargets : \A c \in 1 .. 3 :
                 leds[spiralOrder(e)][c]
                   = qadd8(core[spiralOrder(e)][c],
                           Scale(BodyRGB(e - REFLECTION_OFFSET, t, fl, fr)[c],
                                 REFLECTION_DECAY))

\* a frame in which a position that emits a visible echo had itself
\* received a non-zero echo
C23_Witness ==
    /\ event = "frame"
    /\ \E e \in EchoTargets :
          /\ EchoValue(t, e, 1) > 0
          /\ EchoValue(t, e - REFLECTION_OFFSET, 1) > 0
          /\ leds[spiralOrder(e)][1] = qadd8(CoreValue(t, e, 1), EchoValue(t, e, 1))

Unassigned == [i \in 0 .. NUM_LEDS - 1 |-> CRGB(-1, -1, -1)]

\* the stores of the left core, right core, centre anchors and main body,
\* run on buf without the clearing loop before them
RenderStores(buf, x) ==
    LET fl == FinalL(x)
        fr == FinalR(x)
    IN  BodyLoop(CenterAnchors(RightCore(LeftCore(buf, x, fl), x, fr), fl, fr),
                 2, x, fl, fr)

\* C25: whole buffer rewritten each frame.  spiralOrder is a permutation of
\* 0 .. NUM_LEDS-1, and in every rendered frame each physical LED of the
\* submitted buffer holds a value stored during that frame: the core, anchor
\* and body stores alone, run over a marked buffer, leave no mark and give
\* the submitted buffer.
C25_WholeBufferRewritten ==
    /\ { spiralOrder(i) : i \in 0 .. NUM_LEDS - 1 } = 0 .. NUM_LEDS - 1
    /\ (event = "frame")
          => LET st == RenderStores(Unassigned, t)
             IN  /\ \A i \in 0 .. NUM_LEDS - 1 : \A c \in 1 .. 3 : st[i][c] >= 0
                 /\ sink.leds = st

\* a lit frame at full amplitude in the spiral mode, many frames after the
\* first lit one
C25_Witness ==
    /\ event = "frame"
    /\ rampMul = ONE
    /\ mandalaMode = 1
    /\ \E i \in 0 .. NUM_LEDS - 1 : sink.leds[i][1] > 100

\* the distance between positions a and b on the ring of length 1, in
\* thousandths
CircDist(a, b) ==
    LET d == (a - b) % ONE
    IN  IF d > 500 THEN ONE - d ELSE d

====
